---- MODULE Spec2Model ----
(***************************************************************************)
(* Model of the expression evaluator of infibrocco/parsematic.             *)
(*                                                                         *)
(* The repository ships the evaluator twice: package `parsematic` and the  *)
(* older package `yampy`.  Both are modelled; the variable pkg says which  *)
(* one a behaviour runs.  A behaviour is one call of MathParser.parse on   *)
(* one input string, cut at the statements of MathParser.tokenize:         *)
(*   re.findall, the sign-combining loop, the MathNum conversion, one      *)
(*   iteration of the parenthesis loop, one pass of the top-level fold     *)
(*   loop, the return of the tree, and MathParser.calculate.               *)
(*                                                                         *)
(* Python strings are sequences of one-character strings.  Python list     *)
(* indices are kept 0-based (and may be negative) through At/Del/Slice.    *)
(* Python floats are modelled as exact rationals n/d.                      *)
(***************************************************************************)
EXTENDS Integers, Sequences, FiniteSets, TLC

(***************************************************************************)
(* Bounds of the checked input space.                                      *)
(***************************************************************************)
MaxInt == 2
MaxToks == 3
MaxBlank == 3
MaxArgs == 2

(***************************************************************************)
(* Characters and character classes of the token pattern.                  *)
(***************************************************************************)
Digits == <<"0", "1", "2", "3", "4", "5", "6", "7", "8", "9">>

Digit == {Digits[i] : i \in 1..10}

Letter ==
    {"a", "b", "c", "d", "e", "f", "g", "h", "i", "j", "k", "l", "m",
     "n", "o", "p", "q", "r", "s", "t", "u", "v", "w", "x", "y", "z",
     "A", "B", "C", "D", "E", "F", "G", "H", "I", "J", "K", "L", "M",
     "N", "O", "P", "Q", "R", "S", "T", "U", "V", "W", "X", "Y", "Z"}

WordChar == Letter \cup Digit \cup {"_"}

(***************************************************************************)
(* Python list access with 0-based, possibly negative indices.             *)
(***************************************************************************)
Pos(l, i) == IF i < 0 THEN Len(l) + i + 1 ELSE i + 1

InRange(l, i) == Pos(l, i) >= 1 /\ Pos(l, i) <= Len(l)

At(l, i) == l[Pos(l, i)]

Del(l, i) == SubSeq(l, 1, Pos(l, i) - 1) \o SubSeq(l, Pos(l, i) + 1, Len(l))

Put(l, i, x) == [l EXCEPT ![Pos(l, i)] = x]

\* l[a:b] for 0 <= a, b
Slice(l, a, b) == SubSeq(l, a + 1, IF b > Len(l) THEN Len(l) ELSE b)

\* F(x), with x evaluated to a value once, before F uses it: Python evaluates
\* the right side of an assignment once, where an operator definition would
\* substitute the expression for every use of the name
Once(x, F(_)) == CHOOSE y \in {F(v) : v \in {x}} : TRUE

(***************************************************************************)
(* re.findall(self.pattern, expression)                                    *)
(***************************************************************************)
RECURSIVE Run(_, _, _)
\* length of the longest run of characters of class cls in s from index i (1-based)
Run(s, i, cls) ==
    IF i > Len(s) \/ s[i] \notin cls THEN 0 ELSE 1 + Run(s, i + 1, cls)

HasAt(s, i, c) == i <= Len(s) /\ s[i] = c

\* length of the match of the pattern at index i of s, 0 when no alternative matches
pattern(s, i) ==
    LET d == Run(s, i, Digit)
        f == Run(s, i + d + 1, Digit)
    IN  IF d > 0 /\ HasAt(s, i + d, ".") /\ f > 0 THEN d + 1 + f
        ELSE IF d > 0 THEN d
        ELSE IF HasAt(s, i, "/") /\ HasAt(s, i + 1, "/") THEN 2
        ELSE IF HasAt(s, i, "*") /\ HasAt(s, i + 1, "*") THEN 2
        ELSE IF s[i] \in {"+", "-", "*", "/"} THEN 1
        ELSE IF Run(s, i, WordChar) > 0 THEN Run(s, i, WordChar)
        ELSE IF s[i] \in {"(", ")"} THEN 1
        ELSE 0

RECURSIVE findall(_, _)
findall(s, i) ==
    IF i > Len(s) THEN <<>>
    ELSE LET m == pattern(s, i)
         IN  IF m = 0 THEN Once(i + 1, LAMBDA j : findall(s, j))
             ELSE <<SubSeq(s, i, i + m - 1)>> \o Once(i + m, LAMBDA j : findall(s, j))

(***************************************************************************)
(* The two packages, and the static tables.                                *)
(***************************************************************************)
Packages == {"parsematic", "yampy"}

\* the table with the additive operators declared before the multiplicative ones
operators_additive_first ==
    << <<"+">>,
       <<"-">>,
       <<"*", "*">>,
       <<"/", "/">>,
       <<"/">>,
       <<"*">>,
       <<"%">>,
       <<"=", "=">>,
       <<"!", "=">>,
       <<"<">>,
       <<">">>,
       <<"<", "=">>,
       <<">", "=">> >>

\* MathOp.operators, in the iteration (declaration) order of the dict
operators ==
    << <<"*", "*">>,
       <<"/", "/">>,
       <<"/">>,
       <<"*">>,
       <<"%">>,
       <<"+">>,
       <<"-">>,
       <<"=", "=">>,
       <<"!", "=">>,
       <<"<">>,
       <<">">>,
       <<"<", "=">>,
       <<">", "=">> >>

OperatorSet == {operators[i] : i \in 1..Len(operators)}

\* MathFunc.funcs: name -> (function, min_args, max_args); yampy says whether
\* the older package has the entry too
funcs ==
    {[name |-> <<"f", "a", "c", "t">>, min_args |-> 1, max_args |-> 1, yampy |-> TRUE],
     [name |-> <<"f", "a", "c", "t", "o", "r", "i", "a", "l">>, min_args |-> 1, max_args |-> 1, yampy |-> TRUE],
     [name |-> <<"s", "i", "n">>, min_args |-> 1, max_args |-> 1, yampy |-> TRUE],
     [name |-> <<"c", "o", "s">>, min_args |-> 1, max_args |-> 1, yampy |-> TRUE],
     [name |-> <<"t", "a", "n">>, min_args |-> 1, max_args |-> 1, yampy |-> TRUE],
     [name |-> <<"a", "b", "s">>, min_args |-> 1, max_args |-> 1, yampy |-> TRUE],
     [name |-> <<"s", "q", "r", "t">>, min_args |-> 1, max_args |-> 1, yampy |-> TRUE],
     [name |-> <<"l", "o", "g">>, min_args |-> 1, max_args |-> 2, yampy |-> TRUE],
     [name |-> <<"l", "o", "g", "2">>, min_args |-> 1, max_args |-> 1, yampy |-> FALSE],
     [name |-> <<"l", "o", "g", "1", "0">>, min_args |-> 1, max_args |-> 1, yampy |-> FALSE],
     [name |-> <<"g", "c", "d">>, min_args |-> 2, max_args |-> 1000, yampy |-> TRUE],
     [name |-> <<"l", "c", "m">>, min_args |-> 2, max_args |-> 1000, yampy |-> TRUE],
     [name |-> <<"x", "o", "r">>, min_args |-> 2, max_args |-> 2, yampy |-> TRUE],
     [name |-> <<"i", "n", "t">>, min_args |-> 1, max_args |-> 1, yampy |-> TRUE],
     [name |-> <<"f", "l", "o", "a", "t">>, min_args |-> 1, max_args |-> 1, yampy |-> TRUE],
     [name |-> <<"m", "i", "n">>, min_args |-> 2, max_args |-> 1000, yampy |-> TRUE],
     [name |-> <<"m", "a", "x">>, min_args |-> 2, max_args |-> 1000, yampy |-> TRUE],
     [name |-> <<"n", "o", "t">>, min_args |-> 1, max_args |-> 1, yampy |-> TRUE],
     [name |-> <<"r", "o", "u", "n", "d">>, min_args |-> 1, max_args |-> 2, yampy |-> FALSE],
     [name |-> <<"c", "e", "i", "l">>, min_args |-> 1, max_args |-> 1, yampy |-> FALSE],
     [name |-> <<"f", "l", "o", "o", "r">>, min_args |-> 1, max_args |-> 1, yampy |-> FALSE],
     [name |-> <<"c", "h", "r">>, min_args |-> 1, max_args |-> 1, yampy |-> FALSE],
     [name |-> <<"b", "i", "n">>, min_args |-> 1, max_args |-> 1, yampy |-> FALSE],
     [name |-> <<"h", "e", "x">>, min_args |-> 1, max_args |-> 1, yampy |-> FALSE],
     [name |-> <<"o", "c", "t">>, min_args |-> 1, max_args |-> 1, yampy |-> FALSE],
     [name |-> <<"h", "a", "s", "h">>, min_args |-> 1, max_args |-> 1, yampy |-> FALSE],
     [name |-> <<"h", "y", "p", "o", "t">>, min_args |-> 1, max_args |-> 1000, yampy |-> FALSE]}

\* the entries of MathFunc.funcs of package p
FuncsOf(p) == {f \in funcs : p = "parsematic" \/ f.yampy}

FuncNames(p) == {f.name : f \in FuncsOf(p)}

FuncEntry(p, name) == CHOOSE f \in FuncsOf(p) : f.name = name

\* MathConst.constants (package parsematic only)
constants ==
    {<<"P", "I">>, <<"T", "A", "U">>, <<"E">>, <<"I", "N", "F">>, <<"N", "A", "N">>}

(***************************************************************************)
(* The objects a token list holds: Python strings and MathObj instances.   *)
(***************************************************************************)
Str(s) == [k |-> "str", s |-> s]

\* MathNum(n) for a str n: value is the text, conv is chosen at calc
MathNum(s) == [k |-> "num", s |-> s]

\* MathConst.constants[name]: a MathNum built from a float
MathNumConst(name) == [k |-> "numconst", s |-> name]

MathObj == [k |-> "obj"]

IsStr(x) == x.k = "str"

\* value2 == 0: true of the Python number 0 only; str and MathObj instances
\* (MathObj defines no __eq__) never compare equal to it
EqualsZero(x) == x.k = "pynumber" /\ x.n = 0

\* MathOp.__init__: ret_nan says that self.op was replaced by self.ret_nan
MathOp(p, op, value1, value2) ==
    [k |-> "op", op |-> op, value1 |-> value1, value2 |-> value2,
     ret_nan |-> (p = "parsematic" /\ op \in {<<"/">>, <<"/", "/">>}
                  /\ EqualsZero(value2))]

\* ArgumentError(...) as the two packages call it never returns: parsematic
\* passes "" as the argument, whose option_strings attribute is then read;
\* yampy omits the required message parameter
ArgumentError(p) == IF p = "parsematic" THEN "AttributeError" ELSE "TypeError"

\* MathFunc.__init__(funcname, *args)
MathFunc(p, funcname, args) ==
    IF funcname \notin FuncNames(p)
    THEN [err |-> "ValueError", node |-> MathObj]
    ELSE LET f == FuncEntry(p, funcname)
         IN  IF f.max_args >= Len(args) /\ Len(args) >= f.min_args
             THEN [err |-> "none",
                   node |-> [k |-> "func", name |-> funcname, args |-> args]]
             ELSE [err |-> ArgumentError(p), node |-> MathObj]

(***************************************************************************)
(* is_number                                                               *)
(***************************************************************************)
isnumeric(n) == Len(n) > 0 /\ \A i \in 1..Len(n) : n[i] \in Digit

\* re.match(r"^-?\d+(?:\.\d+)?$", n)
NumberRegex(n) ==
    LET b == IF HasAt(n, 1, "-") THEN 2 ELSE 1
        d == Run(n, b, Digit)
        f == Run(n, b + d + 1, Digit)
    IN  /\ d > 0
        /\ \/ b + d = Len(n) + 1
           \/ HasAt(n, b + d, ".") /\ f > 0 /\ b + d + 1 + f = Len(n) + 1

is_number(n) == isnumeric(n) \/ (Len(n) > 0 /\ NumberRegex(n))

(***************************************************************************)
(* tokenize, first part: the sign-combining loop and the MathNum pass.     *)
(* Every step returns [err, toks, n]: the exception raised ("none" when    *)
(* none), the list, and the number of MathOp nodes built.                  *)
(***************************************************************************)
Ok(toks, n) == [err |-> "none", toks |-> toks, n |-> n]

Raise(e, toks, n) == [err |-> e, toks |-> toks, n |-> n]

\* the sign test that looks at the start of the input only
should_combine_tokens_at_start(token, tokens, i) == token = <<"-">> /\ i = 0

should_combine_tokens(token, tokens, i) ==
    token = <<"-">> /\ (i = 0 \/ At(tokens, i - 1) \in OperatorSet)

RECURSIVE combine_loop(_, _, _, _)
\* the while loop over the raw tokens, from index i with updated_tokens = acc
combine_loop(p, tokens, i, acc) ==
    IF ~(i < Len(tokens)) THEN Ok(acc, 0)
    ELSE LET token == At(tokens, i)
         IN  IF should_combine_tokens(token, tokens, i)
             THEN IF ~InRange(tokens, i + 1) THEN Raise("IndexError", acc, 0)
                  ELSE combine_loop(p, tokens, i + 2,
                                    Append(acc, Str(token \o At(tokens, i + 1))))
             ELSE IF p = "parsematic" /\ token \in constants
             THEN combine_loop(p, tokens, i + 1, Append(acc, MathNumConst(token)))
             ELSE combine_loop(p, tokens, i + 1, Append(acc, Str(token)))

\* [MathNum(token) if is_number(token) else token for token in updated_tokens];
\* is_number calls n.isnumeric(), which a MathNum object does not have
number_pass(toks) ==
    IF \E i \in 1..Len(toks) : ~IsStr(toks[i]) THEN Raise("AttributeError", toks, 0)
    ELSE Ok([i \in 1..Len(toks) |->
                IF is_number(toks[i].s) THEN MathNum(toks[i].s) ELSE toks[i]], 0)

(***************************************************************************)
(* The operator fold shared by the parenthesis loop and the top-level loop *)
(***************************************************************************)
\* l.index(s): 0-based index of the first element equal to the str s, -1 for
\* ValueError
index(l, s) ==
    IF \E i \in 1..Len(l) : l[i] = Str(s)
    THEN (CHOOSE i \in 1..Len(l) :
              l[i] = Str(s) /\ \A j \in 1..(i - 1) : l[j] # Str(s)) - 1
    ELSE -1

\* l.count(s)
count(l, s) == Cardinality({i \in 1..Len(l) : l[i] = Str(s)})

RECURSIVE fold_op(_, _, _, _)
\* the try block for one operator op: fold every occurrence, leftmost first
fold_op(p, l, op, n) ==
    LET found == index(l, op)
    IN  IF found = -1 THEN Ok(l, n)
        ELSE IF ~InRange(l, found + 1) THEN Raise("IndexError", l, n)
        ELSE LET node == MathOp(p, op, At(l, found - 1), At(l, found + 1))
                 l1 == Put(l, found, node)
                 l2 == Del(l1, found + 1)
                 l3 == Del(l2, found - 1)
             IN  Once(l3, LAMBDA l4 : fold_op(p, l4, op, n + 1))

RECURSIVE fold_ops(_, _, _, _)
\* for op in MathOp.operators, from the k-th operator on
fold_ops(p, l, k, n) ==
    IF k > Len(operators) THEN Ok(l, n)
    ELSE LET r == fold_op(p, l, operators[k], n)
         IN  Once(r, LAMBDA r1 :
                 IF r1.err # "none" THEN r1 ELSE fold_ops(p, r1.toks, k + 1, r1.n))

(***************************************************************************)
(* find_parentheses and one iteration of the parenthesis loop              *)
(***************************************************************************)
find_parentheses(expr) ==
    LET c1 == count(expr, <<"(">>)
        p2 == index(expr, <<")">>)
        opens == {idx \in 0..(p2 - 1) : At(expr, idx) = Str(<<"(">>)}
    IN  IF c1 # count(expr, <<")">>) THEN [err |-> "SyntaxError", p1 |-> -1, p2 |-> -1]
        ELSE IF c1 = 0 THEN [err |-> "none", p1 |-> -1, p2 |-> -1]
        ELSE IF opens = {} THEN [err |-> "ValueError", p1 |-> -1, p2 |-> p2]
        ELSE [err |-> "none",
              p1 |-> CHOOSE idx \in opens : \A o \in opens : o <= idx,
              p2 |-> p2]

\* updated_tokens[p1 - 1] in MathFunc.funcs
IsFuncToken(p, x) == IsStr(x) /\ x.s \in FuncNames(p)

\* the loop body with the left slice taken one token too long, so that the
\* "(" of a plain group stays in the list
paren_step_keeps_open(p, toks) ==
    LET fp == find_parentheses(toks)
        p1 == fp.p1
        p2 == fp.p2
        funcargs == IsFuncToken(p, At(toks, p1 - 1))
        f == fold_ops(p, Slice(toks, p1 + 1, p2), 1, 0)
        expr == f.toks
        mf == MathFunc(p, At(toks, p1 - 1).s, expr)
        named == Put(toks, p1 - 1, mf.node)
    IN  IF fp.err # "none" THEN Raise(fp.err, toks, 0)
        ELSE IF f.err # "none" THEN Raise(f.err, toks, f.n)
        ELSE IF p = "yampy" /\ Len(expr) # 1 THEN Raise("Exception", toks, f.n)
        ELSE IF funcargs
        THEN IF mf.err # "none" THEN Raise(mf.err, toks, f.n)
             ELSE Ok(Slice(named, 0, p1) \o Slice(named, p2 + 1, Len(named)), f.n)
        ELSE Ok(Slice(toks, 0, p1 + 1) \o expr \o Slice(toks, p2 + 1, Len(toks)), f.n)

\* the body of `while "(" in updated_tokens`
paren_step(p, toks) ==
    LET fp == find_parentheses(toks)
        p1 == fp.p1
        p2 == fp.p2
        funcargs == IsFuncToken(p, At(toks, p1 - 1))
        f == fold_ops(p, Slice(toks, p1 + 1, p2), 1, 0)
        expr == f.toks
        mf == MathFunc(p, At(toks, p1 - 1).s, expr)
        named == Put(toks, p1 - 1, mf.node)
    IN  IF fp.err # "none" THEN Raise(fp.err, toks, 0)
        ELSE IF f.err # "none" THEN Raise(f.err, toks, f.n)
        ELSE IF p = "yampy" /\ Len(expr) # 1 THEN Raise("Exception", toks, f.n)
        ELSE IF funcargs
        THEN IF mf.err # "none" THEN Raise(mf.err, toks, f.n)
             ELSE Ok(Slice(named, 0, p1) \o Slice(named, p2 + 1, Len(named)), f.n)
        ELSE Ok(Slice(toks, 0, p1) \o expr \o Slice(toks, p2 + 1, Len(toks)), f.n)

\* the body of `while len(tokens) > 1 and iters < 100`: IndexError is
\* re-raised as SyntaxError
fold_pass(p, toks) ==
    Once(fold_ops(p, toks, 1, 0), LAMBDA f :
        IF f.err = "IndexError" THEN Raise("SyntaxError", f.toks, f.n) ELSE f)

\* the two return statements of tokenize
return_tree(toks) == IF Len(toks) = 0 THEN MathObj ELSE At(toks, 0)

(***************************************************************************)
(* Python numbers.  A value is [t, n, d]: the rational n/d (d > 0, lowest  *)
(* terms) of type t in int, bool, float; NaN is math.nan; Unmodelled       *)
(* stands for the results this model does not compute (irrational or       *)
(* non-numeric results of library functions).                              *)
(***************************************************************************)
Abs(x) == IF x < 0 THEN -x ELSE x

RECURSIVE Gcd(_, _)
Gcd(a, b) == IF b = 0 THEN Abs(a) ELSE Gcd(b, Abs(a) % Abs(b))

\* floor(x / y) for y # 0
FloorDiv(x, y) == IF y > 0 THEN x \div y ELSE (-x) \div (-y)

RECURSIVE Power(_, _)
Power(b, e) == IF e = 0 THEN 1 ELSE b * Power(b, e - 1)

IntV(n) == [t |-> "int", n |-> n, d |-> 1]

BoolV(b) == [t |-> "bool", n |-> IF b THEN 1 ELSE 0, d |-> 1]

\* the float n/d, for d # 0
FloatV(n, d) ==
    LET g == Gcd(n, d)
        sg == IF d < 0 THEN -1 ELSE 1
    IN  [t |-> "float", n |-> (sg * n) \div g, d |-> (sg * d) \div g]

NaN == [t |-> "nan", n |-> 0, d |-> 1]

Unmodelled == [t |-> "unmodelled", n |-> 0, d |-> 1]

IsRational(v) == v.t \in {"int", "bool", "float"}

\* the number n/d typed as Python types the result of arithmetic on a and b
Typed(a, b, n, d) ==
    IF a.t = "float" \/ b.t = "float" THEN FloatV(n, d) ELSE IntV(n \div d)

\* Python's == on numbers (1 == 1.0 == True)
NumEq(a, b) == IsRational(a) /\ IsRational(b) /\ a.n * b.d = b.n * a.d

Value(v) == [err |-> "none", v |-> v]

Throw(e) == [err |-> e, v |-> Unmodelled]

\* operator.pow(a, b)
pow(a, b) ==
    IF b.d # 1 THEN Value(Unmodelled)
    ELSE IF b.n >= 0
    THEN Value(Typed(a, b, Power(a.n, b.n), Power(a.d, b.n)))
    ELSE IF a.n = 0 THEN Throw("ZeroDivisionError")
    ELSE Value(FloatV(Power(a.d, -b.n), Power(a.n, -b.n)))

\* self.op(x, y) for the functions of MathOp.operators
ApplyOp(op, a, b) ==
    LET q == FloorDiv(a.n * b.d, a.d * b.n)
    IN  IF ~IsRational(a) \/ ~IsRational(b) THEN Value(Unmodelled)
        ELSE IF op = <<"*", "*">> THEN pow(a, b)
        ELSE IF op = <<"/", "/">>
        THEN IF b.n = 0 THEN Throw("ZeroDivisionError")
             ELSE Value(Typed(a, b, q, 1))
        ELSE IF op = <<"/">>
        THEN IF b.n = 0 THEN Throw("ZeroDivisionError")
             ELSE Value(FloatV(a.n * b.d, a.d * b.n))
        ELSE IF op = <<"*">> THEN Value(Typed(a, b, a.n * b.n, a.d * b.d))
        ELSE IF op = <<"%">>
        THEN IF b.n = 0 THEN Throw("ZeroDivisionError")
             ELSE Value(Typed(a, b, a.n * b.d - q * b.n * a.d, a.d * b.d))
        ELSE IF op = <<"+">> THEN Value(Typed(a, b, a.n * b.d + b.n * a.d, a.d * b.d))
        ELSE IF op = <<"-">> THEN Value(Typed(a, b, a.n * b.d - b.n * a.d, a.d * b.d))
        ELSE IF op = <<"=", "=">> THEN Value(BoolV(a.n * b.d = b.n * a.d))
        ELSE IF op = <<"!", "=">> THEN Value(BoolV(a.n * b.d # b.n * a.d))
        ELSE IF op = <<"<">> THEN Value(BoolV(a.n * b.d < b.n * a.d))
        ELSE IF op = <<">">> THEN Value(BoolV(a.n * b.d > b.n * a.d))
        ELSE IF op = <<"<", "=">> THEN Value(BoolV(a.n * b.d <= b.n * a.d))
        ELSE Value(BoolV(a.n * b.d >= b.n * a.d))

\* int(value) / float(value) of a numeric literal "[-]ddd[.ddd]"
DigitVal(c) == CHOOSE i \in 0..9 : Digits[i + 1] = c

RECURSIVE DigitsVal(_)
\* value of a sequence of digits, the "." ignored
DigitsVal(s) ==
    IF Len(s) = 0 THEN 0
    ELSE IF s[Len(s)] = "." THEN DigitsVal(SubSeq(s, 1, Len(s) - 1))
    ELSE 10 * DigitsVal(SubSeq(s, 1, Len(s) - 1)) + DigitVal(s[Len(s)])

RECURSIVE Decimals(_)
\* 10 ** (number of digits after the "."), 1 when there is no "."
Decimals(s) ==
    IF Len(s) = 0 \/ "." \notin {s[i] : i \in 1..Len(s)} THEN 1
    ELSE IF s[Len(s)] = "." THEN 1
    ELSE 10 * Decimals(SubSeq(s, 1, Len(s) - 1))

conv(s) ==
    LET neg == HasAt(s, 1, "-")
        body == IF neg THEN SubSeq(s, 2, Len(s)) ELSE s
        m == IF neg THEN -DigitsVal(body) ELSE DigitsVal(body)
    IN  IF "." \in {s[i] : i \in 1..Len(s)} THEN FloatV(m, Decimals(body))
        ELSE IntV(m)

\* a placeholder object that evaluates to not-a-number
MathObjCalc_nan == NaN

\* MathObj.calc
MathObjCalc == IntV(0)

\* the library functions of MathFunc.funcs on evaluated arguments; only abs,
\* gcd, lcm, min, max and sqrt (of a perfect square) are computed
ApplyFunc(p, name, vs) ==
    LET n == Len(vs)
        Less(a, b) == a.n * b.d < b.n * a.d
        roots == {r \in 0..vs[1].n : r * r = vs[1].n}
    IN  IF \E i \in 1..n : ~IsRational(vs[i]) THEN Value(Unmodelled)
        ELSE IF name = <<"a", "b", "s">>
        THEN Value(Typed(vs[1], vs[1], Abs(vs[1].n), vs[1].d))
        ELSE IF name = <<"g", "c", "d">>
        THEN IF \E i \in 1..n : vs[i].t = "float" THEN Throw("TypeError")
             ELSE IF n = 2 THEN Value(IntV(Gcd(vs[1].n, vs[2].n)))
             ELSE Value(Unmodelled)
        ELSE IF name = <<"l", "c", "m">>
        THEN IF p = "parsematic" /\ n # 2 THEN Throw("TypeError")
             ELSE IF \E i \in 1..n : vs[i].t = "float" THEN Throw("TypeError")
             ELSE IF n # 2 THEN Value(Unmodelled)
             ELSE IF Gcd(vs[1].n, vs[2].n) = 0
             THEN IF p = "parsematic" THEN Throw("ZeroDivisionError") ELSE Value(IntV(0))
             ELSE IF p = "parsematic"
             THEN Value(IntV(FloorDiv(vs[1].n * vs[2].n, Gcd(vs[1].n, vs[2].n))))
             ELSE Value(IntV(Abs(vs[1].n * vs[2].n) \div Gcd(vs[1].n, vs[2].n)))
        ELSE IF name = <<"m", "i", "n">>
        THEN Value(vs[CHOOSE i \in 1..n :
                        /\ \A j \in 1..n : ~Less(vs[j], vs[i])
                        /\ \A j \in 1..(i - 1) : Less(vs[i], vs[j])])
        ELSE IF name = <<"m", "a", "x">>
        THEN Value(vs[CHOOSE i \in 1..n :
                        /\ \A j \in 1..n : ~Less(vs[i], vs[j])
                        /\ \A j \in 1..(i - 1) : Less(vs[j], vs[i])])
        ELSE IF name = <<"s", "q", "r", "t">>
        THEN IF vs[1].n < 0 THEN Throw("ValueError")
             ELSE IF vs[1].d = 1 /\ roots # {}
             THEN Value(FloatV(CHOOSE r \in roots : TRUE, 1))
             ELSE Value(Unmodelled)
        ELSE Value(Unmodelled)

RECURSIVE calc(_, _), calc_args(_, _, _, _)
\* x.calc(), the method of the object x; a str has no such attribute
calc(p, x) ==
    IF x.k = "str" THEN Throw("AttributeError")
    ELSE IF x.k = "obj" THEN Value(MathObjCalc)
    ELSE IF x.k = "num" THEN Value(conv(x.s))
    ELSE IF x.k = "numconst" THEN Value(Unmodelled)
    ELSE IF x.k = "op"
    THEN LET a == calc(p, x.value1)
             b == calc(p, x.value2)
         IN  IF a.err # "none" THEN a
             ELSE IF b.err # "none" THEN b
             ELSE IF x.ret_nan THEN Value(NaN)
             ELSE ApplyOp(x.op, a.v, b.v)
    ELSE LET as == calc_args(p, x.args, 1, <<>>)
         IN  IF as.err # "none" THEN Throw(as.err)
             ELSE ApplyFunc(p, x.name, as.v)

\* (x.calc() for x in self.args), from the i-th argument on
calc_args(p, args, i, acc) ==
    IF i > Len(args) THEN [err |-> "none", v |-> acc]
    ELSE LET a == calc(p, args[i])
         IN  IF a.err # "none" THEN [err |-> a.err, v |-> acc]
             ELSE calc_args(p, args, i + 1, Append(acc, a.v))

(***************************************************************************)
(* tokenize, calculate and parse as functions of the whole input.          *)
(***************************************************************************)
MaxIters == 100

RECURSIVE paren_loop(_, _, _)
\* while "(" in updated_tokens
paren_loop(p, toks, n) ==
    IF count(toks, <<"(">>) = 0 THEN Ok(toks, n)
    ELSE LET r == paren_step(p, toks)
         IN  IF r.err # "none" THEN Raise(r.err, r.toks, n + r.n)
             ELSE paren_loop(p, r.toks, n + r.n)

RECURSIVE fold_loop(_, _, _, _)
\* while len(tokens) > 1 and iters < 100; a pass that leaves the list as it
\* was is repeated with the same effect until iters reaches 100, so the
\* remaining passes are not unfolded
fold_loop(p, toks, iters_, n) ==
    IF ~(Len(toks) > 1 /\ iters_ < MaxIters) THEN Ok(toks, n)
    ELSE LET r == fold_pass(p, toks)
         IN  IF r.err # "none" THEN Raise(r.err, r.toks, n + r.n)
             ELSE IF r.toks = toks THEN Ok(toks, n)
             ELSE fold_loop(p, r.toks, iters_ + 1, n + r.n)

\* MathParser.tokenize: [err, tree]
tokenize(p, expression_) ==
    LET c == combine_loop(p, findall(expression_, 1), 0, <<>>)
        m == number_pass(c.toks)
        l == paren_loop(p, m.toks, 0)
        f == fold_loop(p, l.toks, 0, 0)
    IN  IF c.err # "none" THEN [err |-> c.err, tree |-> MathObj]
        ELSE IF m.err # "none" THEN [err |-> m.err, tree |-> MathObj]
        ELSE IF l.err # "none" THEN [err |-> l.err, tree |-> MathObj]
        ELSE IF f.err # "none" THEN [err |-> f.err, tree |-> MathObj]
        ELSE [err |-> "none", tree |-> return_tree(f.toks)]

\* MathParser.parse: [err, v]
parse(p, expression_) ==
    LET t == tokenize(p, expression_)
    IN  IF t.err # "none" THEN Throw(t.err) ELSE calc(p, t.tree)

(***************************************************************************)
(* The inputs: expression texts drawn from bounded families.               *)
(***************************************************************************)
RECURSIVE DigitsOf(_)
DigitsOf(n) ==
    IF n < 10 THEN <<Digits[n + 1]>>
    ELSE DigitsOf(n \div 10) \o <<Digits[(n % 10) + 1]>>

\* the decimal text of the integer i, "-" first when negative
NumText(i) == IF i < 0 THEN <<"-">> \o DigitsOf(-i) ELSE DigitsOf(i)

RECURSIVE JoinWith(_, _)
JoinWith(ws, sep) ==
    IF Len(ws) = 0 THEN <<>>
    ELSE IF Len(ws) = 1 THEN ws[1]
    ELSE ws[1] \o sep \o JoinWith(Tail(ws), sep)

\* the words separated by single spaces
Join(ws) == JoinWith(ws, <<" ">>)

Paren(x) == <<"(">> \o x \o <<")">>

SeqsUpTo(S, n) == UNION {[1..m -> S] : m \in 0..n}

Ints == (-MaxInt)..MaxInt

Nats == 0..MaxInt

Plus == <<"+">>

Minus == <<"-">>

Times == <<"*">>

Foo == <<"f", "o", "o">>

Text2(a, op, b) == Join(<<NumText(a), op, NumText(b)>>)

Text3(a, op1, b, op2, c) ==
    Join(<<NumText(a), op1, NumText(b), op2, NumText(c)>>)

\* "a OP b" for signed a, b and every operator symbol
Binary == {Text2(a, op, b) : a \in Ints, b \in Ints, op \in OperatorSet}

TernaryOps == {Plus, Minus, Times}

\* "a OP b OP c"
Ternary ==
    {Text3(a, op1, b, op2, c) :
        a \in Nats, b \in Nats, c \in Nats, op1 \in TernaryOps, op2 \in TernaryOps}

Literals == {NumText(a) : a \in Ints}

Simple == {Text2(a, op, b) : a \in Nats, b \in Nats, op \in {Plus, Minus, Times}}

\* well-formed expressions of integer literals, operators and parentheses
WellFormed ==
    Literals \cup Simple \cup {Paren(x) : x \in Literals \cup Simple}
    \cup {Join(<<Paren(x), Times, NumText(MaxInt)>>) : x \in Simple}
    \cup {Join(<<NumText(MaxInt), Minus, Paren(x)>>) : x \in Simple}

Grouped == {Paren(x) : x \in WellFormed}

Negated == {Minus \o Paren(x) : x \in WellFormed}

\* texts without a lexable token
Blank == SeqsUpTo({" ", ",", "%"}, MaxBlank)

Args(n) == JoinWith([i \in 1..n |-> <<"4">>], <<",", " ">>)

CallText(name, n) == name \o Paren(Args(n))

Calls ==
    {CallText(name, n) : name \in FuncNames("parsematic") \cup {Foo}, n \in 0..MaxArgs}

Units ==
    {<<"2">>, Plus, Times, Minus, <<"(">>, <<")">>, <<"a", "b", "s">>, Foo}

\* every sequence of at most MaxToks units
TokenTexts == {Join(ws) : ws \in SeqsUpTo(Units, MaxToks)}

\* the operator symbols the token pattern has an alternative for, "-" left
\* out because a leading "-" is a sign
LexedOps == {<<"*", "*">>, <<"/", "/">>, <<"/">>, Times, Plus}

\* a binary operator at a boundary of the list being folded
MissingOperand ==
    LET flat == {Join(<<op, NumText(a)>>) : op \in LexedOps, a \in Nats}
                \cup {Join(<<NumText(a), op>>) : op \in LexedOps, a \in Nats}
    IN  flat \cup {Paren(x) : x \in flat}

\* the expressions of the documentation and the tests
Examples ==
    {<<"2", " ", "+", " ", "3", " ", "*", " ", "4">>,
     <<"2", " ", "+", " ", "3", " ", "*", " ", "4", " ", "-", " ", "6", " ", "/", " ", "2">>,
     <<"2", " ", "+", " ", "3", " ", "*", " ", "(", "4", " ", "-", " ", "1", ")">>,
     <<"1", "0", " ", "%", " ", "3">>,
     <<"2", " ", "*", "*", " ", "3">>,
     <<"-", "5", " ", "+", " ", "3">>,
     <<"3", " ", "-", " ", "-", "2">>,
     <<"-", "(", "2", "+", "3", ")">>,
     <<"s", "q", "r", "t", "(", "1", "6", ")">>,
     <<"g", "c", "d", "(", "1", "2", ",", " ", "1", "8", ")">>,
     <<"g", "c", "d", "(", "5", ")">>,
     <<"s", "q", "r", "t", "(", ")">>,
     <<"(", "2", " ", "+", " ", "3">>,
     <<"2", " ", "+", " ", "3", ")">>,
     <<"f", "o", "o", "(", "1", ")">>,
     <<"P", "I">>,
     <<"(", "2", ")", " ", "s", "q", "r", "t">>,
     <<"1", ".", "5", " ", "+", " ", "1">>,
     <<"5">>}

\* a call of a name that is in no table, alone, as the right operand of "+"
\* and after a complete sum
UnknownCall(c) == Foo \o Paren(NumText(c))

UnknownCalls ==
    {UnknownCall(c) : c \in 1..MaxInt}
    \cup {Join(<<NumText(a), Plus, UnknownCall(1)>>) : a \in Nats}
    \cup {Join(<<NumText(a), Plus, NumText(b), UnknownCall(1)>>) : a \in Nats, b \in Nats}

FloorDivide == <<"/", "/">>

Modulo == <<"%">>

\* two operators of the multiplicative level in a row
SameLevel ==
    {Text3(a, Times, b, FloorDivide, c) : a \in Nats, b \in Nats, c \in 1..MaxInt}
    \cup {Text3(a, Modulo, b, Times, c) : a \in Nats, b \in 1..MaxInt, c \in Nats}

\* a parenthesized literal at the start of the input, a name at its end
GroupThenName ==
    {Join(<<Paren(NumText(a)), name>>) :
        a \in Nats, name \in {<<"a", "b", "s">>, <<"s", "q", "r", "t">>, Foo}}

Inputs ==
    Binary \cup Ternary \cup WellFormed \cup Grouped \cup Negated \cup Blank
    \cup Calls \cup TokenTexts \cup MissingOperand \cup Examples
    \cup UnknownCalls \cup SameLevel \cup GroupThenName

(***************************************************************************)
(* The state machine: one call of parse, statement by statement.           *)
(***************************************************************************)
VARIABLES
    pkg,          \* the package whose MathParser runs
    expression,   \* the argument of parse
    pc,           \* the statement to execute next
    raw,          \* tokens as returned by re.findall
    tokens,       \* updated_tokens, later tokens
    iters,        \* iters of the top-level fold loop
    folds,        \* number of MathOp nodes built so far
    tree,         \* the object returned by tokenize
    result,       \* the value returned by parse
    error,        \* the exception parse raised, "none" when none
    raised_in     \* the statement that raised it

vars == <<pkg, expression, pc, raw, tokens, iters, folds, tree, result, error, raised_in>>

NoTree == [k |-> "none"]

NoValue == [t |-> "none", n |-> 0, d |-> 1]

Init ==
    /\ pkg \in Packages
    /\ expression \in Inputs
    /\ pc = "findall"
    /\ raw = <<>>
    /\ tokens = <<>>
    /\ iters = 0
    /\ folds = 0
    /\ tree = NoTree
    /\ result = NoValue
    /\ error = "none"
    /\ raised_in = "none"

\* where tokenize continues after the parenthesis loop has been left
FoldPc(toks, it) == IF Len(toks) > 1 /\ it < MaxIters THEN "fold" ELSE "return"

\* where tokenize continues with the list toks before or inside the parenthesis loop
ParenPc(toks) == IF count(toks, <<"(">>) > 0 THEN "parens" ELSE FoldPc(toks, 0)

\* the exception e leaves parse
Fail(e) ==
    /\ pc' = "raised"
    /\ error' = e
    /\ raised_in' = pc

\* tokens = re.findall(self.pattern, expression)
Lex ==
    /\ pc = "findall"
    /\ raw' = findall(expression, 1)
    /\ pc' = "combine"
    /\ UNCHANGED <<pkg, expression, tokens, iters, folds, tree, result, error, raised_in>>

\* the loop that merges a sign with the token after it
Combine ==
    /\ pc = "combine"
    /\ \E r \in {combine_loop(pkg, raw, 0, <<>>)} :
           /\ tokens' = r.toks
           /\ IF r.err # "none" THEN Fail(r.err)
              ELSE pc' = "numbers" /\ UNCHANGED <<error, raised_in>>
    /\ UNCHANGED <<pkg, expression, raw, iters, folds, tree, result>>

\* numeric tokens become MathNum objects
Numbers ==
    /\ pc = "numbers"
    /\ \E r \in {number_pass(tokens)} :
           /\ tokens' = r.toks
           /\ IF r.err # "none" THEN Fail(r.err)
              ELSE pc' = ParenPc(r.toks) /\ UNCHANGED <<error, raised_in>>
    /\ UNCHANGED <<pkg, expression, raw, iters, folds, tree, result>>

\* one iteration of the parenthesis loop
ParenStep ==
    /\ pc = "parens"
    /\ \E r \in {paren_step(pkg, tokens)} :
           /\ tokens' = r.toks
           /\ folds' = folds + r.n
           /\ IF r.err # "none" THEN Fail(r.err)
              ELSE pc' = ParenPc(r.toks) /\ UNCHANGED <<error, raised_in>>
    /\ UNCHANGED <<pkg, expression, raw, iters, tree, result>>

\* one pass of the top-level fold loop
FoldPass ==
    /\ pc = "fold"
    /\ \E r \in {fold_pass(pkg, tokens)} :
           /\ tokens' = r.toks
           /\ folds' = folds + r.n
           /\ IF r.err # "none" THEN Fail(r.err) /\ UNCHANGED iters
              ELSE /\ iters' = iters + 1
                   /\ pc' = FoldPc(r.toks, iters + 1)
                   /\ UNCHANGED <<error, raised_in>>
    /\ UNCHANGED <<pkg, expression, raw, tree, result>>

\* tokenize returns
Return ==
    /\ pc = "return"
    /\ tree' = return_tree(tokens)
    /\ pc' = "calculate"
    /\ UNCHANGED <<pkg, expression, raw, tokens, iters, folds, result, error, raised_in>>

\* return self.calculate(tokens)
Calculate ==
    /\ pc = "calculate"
    /\ \E r \in {calc(pkg, tree)} :
           IF r.err # "none" THEN Fail(r.err) /\ UNCHANGED result
           ELSE /\ result' = r.v
                /\ pc' = "done"
                /\ UNCHANGED <<error, raised_in>>
    /\ UNCHANGED <<pkg, expression, raw, tokens, iters, folds, tree>>

Next ==
    \/ Lex
    \/ Combine
    \/ Numbers
    \/ ParenStep
    \/ FoldPass
    \/ Return
    \/ Calculate

Spec == Init /\ [][Next]_vars

\* the inputs of the termination property: every sequence of at most MaxToks
\* numbers, operators and parentheses, and the families with function names,
\* unknown names and missing operands
LoopUnits == {<<"2">>, Plus, <<"(">>, <<")">>}

LoopInputs ==
    {Join(ws) : ws \in SeqsUpTo(LoopUnits, MaxToks)}
    \cup Examples \cup UnknownCalls \cup GroupThenName \cup Calls
    \cup MissingOperand \cup WellFormed

FairInit == Init /\ expression \in LoopInputs

\* the interpreter keeps executing the call until parse returns or raises
FairSpec == FairInit /\ [][Next]_vars /\ WF_vars(Next)

\* parse has returned or raised
Finished == pc \in {"done", "raised"}

TypeOK ==
    /\ pkg \in Packages
    /\ pc \in {"findall", "combine", "numbers", "parens", "fold", "return",
               "calculate", "done", "raised"}
    /\ iters \in 0..MaxIters
    /\ (pc = "raised") = (error # "none")
    /\ (pc = "done") => result.t # "none"

(***************************************************************************)
(* Properties.                                                             *)
(***************************************************************************)
Outcome == [err |-> error, v |-> result]

\* the number of raw tokens equal to s
RawCount(s) == Cardinality({i \in 1..Len(raw) : raw[i] = s})

\* C1: multiplicative operators bind tighter than additive ones whatever their
\* position: "a + b * c" evaluates to a + (b*c), "a * b + c" to (a*b) + c and
\* "a - b * c" to a - (b*c); "2 + 3 * 4" is 14 and "2 + 3 * 4 - 6 / 2" is 11.
C1_Precedence ==
    Finished =>
        /\ \A a \in Nats, b \in Nats, c \in Nats :
              /\ expression = Text3(a, Plus, b, Times, c)
                    => pc = "done" /\ result = IntV(a + (b * c))
              /\ expression = Text3(a, Times, b, Plus, c)
                    => pc = "done" /\ result = IntV((a * b) + c)
              /\ expression = Text3(a, Minus, b, Times, c)
                    => pc = "done" /\ result = IntV(a - (b * c))
        /\ expression = Text3(2, Plus, 3, Times, 4)
              => pc = "done" /\ result = IntV(14)
        /\ expression = Join(<<Text3(2, Plus, 3, Times, 4), Minus, Text2(6, <<"/">>, 2)>>)
              => pc = "done" /\ NumEq(result, IntV(11))

C1_Witness ==
    /\ pc = "done"
    /\ expression = Text3(1, Plus, 2, Times, 2)
    /\ result = IntV(5)
    /\ folds = 2

\* C2: division by zero never raises: "a / 0" and "a // 0" return the
\* not-a-number sentinel for every integer a.
C2_DivisionByZeroIsNaN ==
    Finished =>
        \A a \in Ints, op \in {<<"/">>, <<"/", "/">>} :
            expression = Text2(a, op, 0) => pc = "done" /\ result = NaN

\* C3: grouping is idempotent: for every well-formed X of integer literals
\* (signed ones included), binary operators and nested parentheses, "(X)"
\* evaluates to what "X" evaluates to.
C3_GroupingIdempotent ==
    (Finished /\ expression \in Grouped) =>
        LET X == SubSeq(expression, 2, Len(expression) - 1)
            r == parse(pkg, X)
        IN  /\ error = r.err
            /\ pc = "done" => NumEq(result, r.v)

\* C4: exact integer arithmetic on two operands: for signed a and b, "a + b",
\* "a - b" and "a * b" evaluate to the integers a + b, a - b and a * b; a "-" at
\* the start or right after an operator is merged with the number after it into
\* one negative literal, every other "-" stays the subtraction operator.
C4_ExactArithmetic ==
    (pc = "numbers" \/ Finished) => \A a \in Ints, b \in Ints :
        /\ expression = Text2(a, Plus, b) =>
              /\ pc = "numbers" => tokens = <<Str(NumText(a)), Str(Plus), Str(NumText(b))>>
              /\ Finished => pc = "done" /\ result = IntV(a + b)
        /\ expression = Text2(a, Minus, b) =>
              /\ pc = "numbers" => tokens = <<Str(NumText(a)), Str(Minus), Str(NumText(b))>>
              /\ Finished => pc = "done" /\ result = IntV(a - b)
        /\ expression = Text2(a, Times, b) =>
              /\ pc = "numbers" => tokens = <<Str(NumText(a)), Str(Times), Str(NumText(b))>>
              /\ Finished => pc = "done" /\ result = IntV(a * b)

C4_Witness ==
    /\ pc = "done"
    /\ expression = Text2(-2, Minus, -1)
    /\ result = IntV(-1)
    /\ folds = 1

\* C5: unary negation applies to a parenthesized group: for every well-formed
\* X, "-(X)" evaluates to the negation of what "X" evaluates to; "-(2+3)" is -5.
C5_NegatedGroup ==
    /\ (Finished /\ expression \in Negated) =>
          LET X == SubSeq(expression, 3, Len(expression) - 1)
              r == parse(pkg, X)
          IN  pc = "done" /\ r.err = "none" /\ result.n * r.v.d = -(r.v.n * result.d)
    /\ (Finished /\ expression = <<"-", "(", "2", "+", "3", ")">>) =>
          pc = "done" /\ result = IntV(-5)

\* C6: "%" and the comparison operators are recognised and applied: for a >= 0
\* and b > 0, "a % b" evaluates to a mod b ("10 % 3" to 1), and "a OP b" for OP
\* in == != < > <= >= to 1 when the comparison holds and to 0 otherwise.
C6_ModuloAndComparisons ==
    Finished =>
        /\ \A a \in Nats, b \in 1..MaxInt :
              /\ expression = Text2(a, <<"%">>, b)
                    => pc = "done" /\ NumEq(result, IntV(a % b))
              /\ expression = Text2(a, <<"=", "=">>, b)
                    => pc = "done" /\ NumEq(result, BoolV(a = b))
              /\ expression = Text2(a, <<"!", "=">>, b)
                    => pc = "done" /\ NumEq(result, BoolV(a # b))
              /\ expression = Text2(a, <<"<">>, b)
                    => pc = "done" /\ NumEq(result, BoolV(a < b))
              /\ expression = Text2(a, <<">">>, b)
                    => pc = "done" /\ NumEq(result, BoolV(a > b))
              /\ expression = Text2(a, <<"<", "=">>, b)
                    => pc = "done" /\ NumEq(result, BoolV(a <= b))
              /\ expression = Text2(a, <<">", "=">>, b)
                    => pc = "done" /\ NumEq(result, BoolV(a >= b))
        /\ expression = Text2(10, <<"%">>, 3) => pc = "done" /\ NumEq(result, IntV(1))

\* C7: an input without any lexable token (empty, or whitespace only)
\* evaluates to 0 and raises nothing.
C7_EmptyInputIsZero ==
    (pc # "findall" /\ raw = <<>>) =>
        /\ error = "none"
        /\ Finished => pc = "done" /\ result = IntV(0)

C7_Witness ==
    /\ pc = "done"
    /\ expression = <<" ", " ">>
    /\ raw = <<>>
    /\ tree = MathObj
    /\ result = IntV(0)

\* C8: a call whose argument count is outside the function's [min, max] bounds
\* is rejected with an arity error while the tree is built, not when it is
\* evaluated.
C8_ArityRejectedAtBuild ==
    Finished =>
        \A f \in FuncsOf(pkg), n \in 0..MaxArgs :
            (expression = CallText(f.name, n) /\ (n < f.min_args \/ n > f.max_args))
                => /\ pc = "raised"
                   /\ raised_in = "parens"
                   /\ error \in {"ArgumentError", "ArityError"}

\* C9: whenever the numbers of "(" and ")" tokens differ, parse raises
\* SyntaxError, and it does so before any operator has been folded (stated for
\* the inputs that get past the sign and number passes).
C9_MismatchedParentheses ==
    (/\ Finished
     /\ raised_in \notin {"combine", "numbers"}
     /\ RawCount(<<"(">>) # RawCount(<<")">>)) =>
        /\ error = "SyntaxError"
        /\ folds = 0

\* C10: a binary operator without a left or a right operand, at a boundary of
\* the list being folded ("2 +", "+ 2", "* 2", "(2 +)"), makes parse raise an
\* error; parse never returns a number for it (the kind of the error, which
\* the claim gives as SyntaxError, is left open here).
C10_MissingOperandRaises ==
    (Finished /\ expression \in MissingOperand) => pc = "raised"

RECURSIVE HasStr(_)
\* the object x is a str, or a str is an operand or an argument somewhere in it
HasStr(x) ==
    IF x.k = "str" THEN TRUE
    ELSE IF x.k = "op" THEN HasStr(x.value1) \/ HasStr(x.value2)
    ELSE IF x.k = "func" THEN \E i \in 1..Len(x.args) : HasStr(x.args[i])
    ELSE FALSE

\* C11: a name that is neither a constant nor a function, followed by a
\* parenthesized argument ("foo(1)", "2 + foo(1)", "1 + 2 foo(1)"), makes
\* tokenize raise an unknown-function error while the tree is built: tokenize
\* never returns the name as the tree or as an operand in it, and parse never
\* returns a number.
C11_UnknownFunctionRejected ==
    (expression \in UnknownCalls) =>
        /\ tree # NoTree => ~HasStr(tree)
        /\ pc # "done"
        /\ Finished => /\ raised_in = "parens"
                       /\ error \in {"ValueError", "UnknownFunction"}

\* C12: operators of one precedence level fold left to right: for small
\* integers a, b, c, "a - b + c" is (a - b) + c, "a + b - c" is (a + b) - c,
\* "a * b // c" is (a * b) // c and "a % b * c" is (a % b) * c (divisors
\* non-zero).  The expected values are computed without the operator table, so
\* they are the same for every order of declaration in it.
C12_LeftToRight ==
    (Finished /\ expression \in Ternary \cup SameLevel) =>
        \A a \in Nats, b \in Nats, c \in Nats :
            /\ expression = Text3(a, Minus, b, Plus, c)
                  => pc = "done" /\ result = IntV((a - b) + c)
            /\ expression = Text3(a, Plus, b, Minus, c)
                  => pc = "done" /\ result = IntV((a + b) - c)
            /\ (c # 0 /\ expression = Text3(a, Times, b, FloorDivide, c))
                  => pc = "done" /\ result = IntV((a * b) \div c)
            /\ (b # 0 /\ expression = Text3(a, Modulo, b, Times, c))
                  => pc = "done" /\ result = IntV((a % b) * c)

\* C13: a list that does not reduce is an error: when the top-level fold loop
\* has used up its 100 passes with more than one token left ("2 3", "2 + 3)"),
\* parse raises SyntaxError; tokenize does not go on to return the first
\* remaining token (stated for the token sequences and the documented
\* examples, whose characters are all lexed).
C13_UnreducedIsSyntaxError ==
    (iters = MaxIters /\ Len(tokens) > 1 /\ expression \in TokenTexts \cup Examples) =>
        /\ pc \notin {"return", "calculate", "done"}
        /\ Finished => error = "SyntaxError"

\* the innermost "(" of the list is its first token, or the token to its left
\* is not the name of a function
PlainGrouping ==
    LET fp == find_parentheses(tokens)
    IN  /\ fp.err = "none"
        /\ fp.p1 = 0 \/ ~IsFuncToken(pkg, At(tokens, fp.p1 - 1))

\* the step has replaced the innermost span only: the tokens to its left and
\* the tokens to its right are in the new list as they were
OutsideUntouched ==
    LET fp == find_parentheses(tokens)
        after == Len(tokens) - fp.p2 - 1
    IN  /\ Len(tokens') >= fp.p1 + after
        /\ Slice(tokens', 0, fp.p1) = Slice(tokens, 0, fp.p1)
        /\ Slice(tokens', Len(tokens') - after, Len(tokens'))
              = Slice(tokens, fp.p2 + 1, Len(tokens))

\* C14: a parenthesized span becomes a function application only when the
\* token right before its "(" is a function name: in every step of the
\* parenthesis loop where the innermost "(" is the first token or follows a
\* token that is no function name, the span is plain grouping and no token
\* outside it (the last one of "(2) sqrt" in particular) is consumed or
\* replaced.
C14_GroupingUnlessNamed ==
    [][(pc = "parens" /\ PlainGrouping /\ pc' # "raised") => OutsideUntouched]_vars

\* an iteration of the parenthesis loop that completes leaves fewer "(" tokens
ParenStepRemovesOpen ==
    (pc = "parens" /\ pc' # "raised") =>
        count(tokens', <<"(">>) < count(tokens, <<"(">>)

\* every fold takes two tokens off the list: in a pass of the top-level loop,
\* and in the span of a plain group, whose two parentheses go as well
FoldShortensByTwo ==
    /\ (pc = "fold" /\ pc' # "raised") =>
          Len(tokens') = Len(tokens) - 2 * (folds' - folds)
    /\ (/\ pc = "parens"
        /\ pc' # "raised"
        /\ ~IsFuncToken(pkg, At(tokens, find_parentheses(tokens).p1 - 1))) =>
          Len(tokens') = Len(tokens) - 2 - 2 * (folds' - folds)

\* C15: parse terminates on every input, returning a value or raising: each
\* iteration of the parenthesis loop strictly decreases the number of "("
\* tokens, each operator fold shortens the list by exactly two tokens, and the
\* top-level fold loop runs at most 100 passes.
C15_Terminates ==
    /\ <>Finished
    /\ [][ParenStepRemovesOpen /\ FoldShortensByTwo]_vars
    /\ [](iters <= MaxIters)

\* "2 + foo(1)": the parenthesis loop has removed the one "(", one fold has
\* shortened the list to two tokens, the fold loop has used its 100 passes,
\* and parse has ended
C15_Witness ==
    /\ Finished
    /\ expression = Join(<<NumText(2), Plus, UnknownCall(1)>>)
    /\ count(tokens, <<"(">>) = 0
    /\ folds = 1
    /\ Len(tokens) = 2
    /\ iters = MaxIters

====
